---- MODULE Spec2Model ----
(***************************************************************************)
(* State-machine model of src/src/App.js (the App component): the auth     *)
(* bootstrap, the profile (MBTI) load and save, the studyHistory           *)
(* subscription, the prompt composer and the gateway call getAiResponse.   *)
(* Every segment of a handler between two awaits is one atomic action: a   *)
(* browser runs it to completion before the next event.                    *)
(***************************************************************************)
EXTENDS Integers, Sequences, FiniteSets, TLC

(* ------------------------------ bounds -------------------------------- *)

\* Gateway calls issued in one behaviour (caps the call counter).
MaxCalls == 2
\* Concurrent reads of one file, and concurrent saves of one category.
MaxPending == 1
\* Gateway calls issued in a behaviour of SpecCompose.
ComposeCalls == 1

(* ----------------------------- value sets ----------------------------- *)

Modes == {"mentor", "qa", "summary", "quiz", "image"}

\* Two of the sixteen codes of mbtiTypes; the handlers treat all alike.
MbtiTypes == {"INTJ", "ENFP"}
NoMbti == "null"

\* The textarea's contents: '' or some typed text.
Texts == {"", "a"}

\* Files the picker can deliver; File.type of each.
Files == {"cat.png", "dog.jpg"}
NoFile == "null"
NoImage == "null"
FileType(f) == IF f = "cat.png" THEN "image/png" ELSE "image/jpeg"

\* reader.result of readAsDataURL, cut at its comma.
DataUrl(f) == IF f = "cat.png" THEN <<"data:image/png;base64", "iVBOR">>
                               ELSE <<"data:image/jpeg;base64", "/9j/4">>

Uid == "u1"
NoUser == "null"

\* candidates[0].content.parts[0].text of a gateway reply, or absent.
NoText == "undefined"
ReplyTexts == {NoText, "", "r"}
Placeholder == "no-valid-response"

\* How a gateway call can end: 2xx, non-2xx, fetch rejected, body not JSON.
FetchOutcomes == {"ok", "http_error", "network", "bad_json"}

\* The messages setError is called with.
NoError == ""
ErrConfig == "config"
ErrAuth == "auth"
ErrHistory == "history"
ErrMbtiSave == "mbti-save"
ErrEmptyInput == "empty-input"
ErrMbtiRequired == "mbti-required"
ErrGateway == "gateway"

\* A Firestore Timestamp is <<milliseconds, microseconds beyond them>>; a
\* pending server timestamp reads as null.
NoTs == <<>>

\* The server's clock: the commit after one at time t falls later in the
\* same millisecond or into the next one.
NextMillisecond(t) == <<t[1] + 1, 0>>
NextTimes(t) ==
    {NextMillisecond(t)} \cup (IF t[2] = 0 THEN {<<t[1], 500>>} ELSE {})

(* ------------------------------- state -------------------------------- *)

VARIABLES
    db,            \* TRUE once getFirestore(app) has been stored
    userId,
    isAuthReady,
    activeTab,
    prompt,
    imageFile,
    imageBase64,
    response,
    isLoading,
    history,       \* the list the sidebar renders
    error,
    studentMbti,
    showMbtiModal,
    authSvc,       \* the auth service: "init", "nouser" or "user"
    authNull,      \* the listener invocation with user = null
    authUser,      \* the listener invocation with a user
    profileDoc,    \* the mbti field of /artifacts/{appId}/users/{uid}
    saves,         \* setDoc calls awaiting their answer, per category
    readers,       \* FileReader reads in progress, per file
    subDead,       \* the history listener was ended by an error
    store,         \* the studyHistory collection as the client sees it
    clock,         \* the server's next timestamp
    issued,        \* how many gateway calls were issued so far
    calls,         \* the getAiResponse runs suspended at an await
    last           \* the event handled last

vars == <<db, userId, isAuthReady, activeTab, prompt, imageFile, imageBase64,
          response, isLoading, history, error, studentMbti, showMbtiModal,
          authSvc, authNull, authUser, profileDoc, saves, readers, subDead,
          store, clock, issued, calls, last>>

authVars == <<db, userId, isAuthReady, authSvc, authNull, authUser>>
composerVars == <<activeTab, prompt, imageFile, imageBase64>>
storeVars == <<store, clock, profileDoc>>
callVars == <<issued, calls>>

\* The event a handler ran for, with the input it was given.
Ev(op) == [op |-> op, id |-> 0, arg |-> "-", text |-> "-"]
EvItem(op, i) == [op |-> op, id |-> i, arg |-> "-", text |-> "-"]
EvReply(id, outcome, text) ==
    [op |-> "GatewayReply", id |-> id, arg |-> outcome, text |-> text]

\* The render of the image tab reads imageFile.type for the preview once
\* imageBase64 is set (lines 243, 259-261): with no file held it throws a
\* TypeError.
PreviewThrows ==
    activeTab = "image" /\ imageBase64 \notin {"", NoImage} /\ imageFile = NoFile

\* The component is rendered, so its controls and its listeners exist: an
\* error thrown by the render unmounts it.
Mounted == ~PreviewThrows

(* ------------------------------- Init --------------------------------- *)

\* useState initial values of the composer, the response pane and the
\* history list (lines 38-50); nothing is suspended yet.
Fresh ==
    /\ activeTab = "mentor"
    /\ prompt = ""
    /\ imageFile = NoFile
    /\ imageBase64 = NoImage
    /\ response = ""
    /\ isLoading = FALSE
    /\ history = <<>>
    /\ saves = [m \in MbtiTypes |-> 0]
    /\ readers = [f \in Files |-> 0]
    /\ subDead = FALSE
    /\ issued = 0
    /\ calls = {}

\* useState initial values (lines 32-50) followed by the mount effect up to
\* onAuthStateChanged (lines 54-68): without firebaseConfig.apiKey the
\* effect only sets the configuration error.
Init ==
    /\ Fresh
    /\ db \in BOOLEAN
    /\ userId = NoUser
    /\ isAuthReady = FALSE
    /\ error = IF db THEN NoError ELSE ErrConfig
    /\ studentMbti = NoMbti
    /\ showMbtiModal = FALSE
    /\ authSvc = "init"
    /\ authNull = "none"
    /\ authUser = "none"
    /\ profileDoc \in MbtiTypes \cup {NoMbti}
    /\ store = {}
    /\ clock = <<1, 0>>
    /\ last = Ev("init")

\* userDocSnap.exists() && userDocSnap.data().mbti (line 74).
HasMbti(doc) == doc # NoMbti

\* The bootstrap ended with the profile loaded (lines 69-78, 91).
SignedIn ==
    /\ db = TRUE /\ authSvc = "user" /\ authNull = "none" /\ authUser = "done"
    /\ userId = Uid /\ isAuthReady = TRUE
    /\ studentMbti = profileDoc
    /\ showMbtiModal = ~HasMbti(profileDoc) /\ error = NoError
    /\ last = Ev("GetDocOk")

\* The states Spec reaches in which the bootstrap has ended: no
\* configuration; a session with a stored category or without one; a
\* failed sign-in; a profile load that was rejected.
Settled ==
    \/ /\ db = FALSE /\ authSvc = "init" /\ authNull = "none"
       /\ authUser = "none" /\ userId = NoUser /\ isAuthReady = FALSE
       /\ profileDoc = NoMbti /\ studentMbti = NoMbti
       /\ showMbtiModal = FALSE /\ error = ErrConfig
       /\ last = Ev("init")
    \/ /\ profileDoc \in MbtiTypes \cup {NoMbti}
       /\ SignedIn
    \/ /\ db = TRUE /\ authSvc = "nouser" /\ authNull = "done"
       /\ authUser = "none" /\ userId = NoUser /\ isAuthReady = TRUE
       /\ profileDoc = NoMbti /\ studentMbti = NoMbti
       /\ showMbtiModal = FALSE /\ error = ErrAuth
       /\ last = Ev("SignInFail")
    \/ /\ db = TRUE /\ authSvc = "user" /\ authNull = "none"
       /\ authUser = "escaped" /\ userId = Uid /\ isAuthReady = FALSE
       /\ profileDoc = NoMbti /\ studentMbti = NoMbti
       /\ showMbtiModal = FALSE /\ error = NoError
       /\ last = Ev("GetDocFail")

InitSettled ==
    /\ Fresh
    /\ Settled
    /\ store = {}
    /\ clock = <<1, 0>>

\* The collection a returning user's earlier sessions left behind: two
\* exchanges, whose document ids say nothing about their order in time.
\* Two sessions of one user (two tabs) can have them committed within one
\* millisecond.
OldDocs(t1, t2) ==
    {[id |-> 101, type |-> "quiz", prompt |-> "a", response |-> "r",
      mbti |-> NoMbti, timestamp |-> t1],
     [id |-> 102, type |-> "image", prompt |-> "", response |-> Placeholder,
      mbti |-> "INTJ", timestamp |-> t2]}

\* A returning user's session after the bootstrap.
InitFeed ==
    /\ Fresh
    /\ profileDoc \in MbtiTypes
    /\ SignedIn
    /\ \E t \in {<<<<1, 0>>, <<2, 0>>>>, <<<<2, 0>>, <<1, 0>>>>,
                 <<<<2, 500>>, <<2, 0>>>>} :
         store = OldDocs(t[1], t[2])
    /\ clock = <<3, 0>>

\* A first-time user's session after the bootstrap: signed in, no category
\* stored, the selection modal open.
InitFirstRun ==
    /\ Fresh
    /\ profileDoc = NoMbti
    /\ SignedIn
    /\ store = {}
    /\ clock = <<1, 0>>

(* ------------------- session bootstrap (lines 68-92) ------------------ *)

\* onAuthStateChanged delivers a restored session: the callback sets the
\* uid and suspends at getDoc (lines 69-73).
AuthStateRestored ==
    /\ db /\ authSvc = "init"
    /\ authSvc' = "user"
    /\ userId' = Uid
    /\ authUser' = "getDoc"
    /\ last' = Ev("AuthStateRestored")
    /\ UNCHANGED <<db, isAuthReady, authNull, composerVars, response, isLoading,
                   history, error, studentMbti, showMbtiModal, saves, readers,
                   subDead, storeVars, callVars>>

\* onAuthStateChanged delivers no user: the callback suspends at the
\* sign-in (custom token or anonymous, lines 80-85).
AuthStateNull ==
    /\ db /\ authSvc = "init"
    /\ authSvc' = "nouser"
    /\ authNull' = "signIn"
    /\ last' = Ev("AuthStateNull")
    /\ UNCHANGED <<db, userId, isAuthReady, authUser, composerVars, response,
                   isLoading, history, error, studentMbti, showMbtiModal, saves,
                   readers, subDead, storeVars, callVars>>

\* The auth service accepts the sign-in: it now holds a user.
SignInAccepted ==
    /\ authSvc = "nouser" /\ authNull = "signIn"
    /\ authSvc' = "user"
    /\ last' = Ev("SignInAccepted")
    /\ UNCHANGED <<db, userId, isAuthReady, authNull, authUser, composerVars,
                   response, isLoading, history, error, studentMbti,
                   showMbtiModal, saves, readers, subDead, storeVars, callVars>>

\* The awaited sign-in resolves: the null invocation runs line 91.
SignInResolved ==
    /\ authSvc = "user" /\ authNull = "signIn"
    /\ authNull' = "done"
    /\ isAuthReady' = TRUE
    /\ last' = Ev("SignInResolved")
    /\ UNCHANGED <<db, userId, authSvc, authUser, composerVars, response,
                   isLoading, history, error, studentMbti, showMbtiModal, saves,
                   readers, subDead, storeVars, callVars>>

\* The awaited sign-in rejects: catch (lines 86-89), then line 91.
SignInFail ==
    /\ authSvc = "nouser" /\ authNull = "signIn"
    /\ authNull' = "done"
    /\ error' = ErrAuth
    /\ isAuthReady' = TRUE
    /\ last' = Ev("SignInFail")
    /\ UNCHANGED <<db, userId, authSvc, authUser, composerVars, response,
                   isLoading, history, studentMbti, showMbtiModal, saves,
                   readers, subDead, storeVars, callVars>>

\* The listener is told of the signed-in user (lines 69-73).
AuthStateUser ==
    /\ authSvc = "user" /\ authUser = "none"
    /\ userId' = Uid
    /\ authUser' = "getDoc"
    /\ last' = Ev("AuthStateUser")
    /\ UNCHANGED <<db, isAuthReady, authSvc, authNull, composerVars, response,
                   isLoading, history, error, studentMbti, showMbtiModal, saves,
                   readers, subDead, storeVars, callVars>>

\* getDoc resolves (lines 74-78), then line 91.
GetDocOk ==
    /\ authUser = "getDoc"
    /\ authUser' = "done"
    /\ IF HasMbti(profileDoc)
         THEN studentMbti' = profileDoc /\ UNCHANGED showMbtiModal
         ELSE showMbtiModal' = TRUE /\ UNCHANGED studentMbti
    /\ isAuthReady' = TRUE
    /\ last' = Ev("GetDocOk")
    /\ UNCHANGED <<db, userId, authSvc, authNull, composerVars, response,
                   isLoading, history, error, saves, readers, subDead,
                   storeVars, callVars>>

\* getDoc rejects: line 73 is in no try block, so the rejection leaves the
\* async callback and lines 74-91 never run.
GetDocFail ==
    /\ authUser = "getDoc"
    /\ authUser' = "escaped"
    /\ last' = Ev("GetDocFail")
    /\ UNCHANGED <<db, userId, isAuthReady, authSvc, authNull, composerVars,
                   response, isLoading, history, error, studentMbti,
                   showMbtiModal, saves, readers, subDead, storeVars, callVars>>

(* ------------------- profile selection (lines 122-133) ---------------- *)

\* The modal's sixteen buttons (lines 292-306) call handleMbtiSelect.
handleMbtiSelect(mbti) ==
    /\ Mounted
    /\ showMbtiModal
    /\ last' = Ev("handleMbtiSelect")
    /\ IF ~db \/ userId = NoUser
         THEN UNCHANGED <<studentMbti, saves>>
         ELSE /\ saves[mbti] < MaxPending
              /\ studentMbti' = mbti
              /\ saves' = [saves EXCEPT ![mbti] = @ + 1]
    /\ UNCHANGED <<authVars, composerVars, response, isLoading, history, error,
                   showMbtiModal, readers, subDead, storeVars, callVars>>

\* setDoc resolves (line 128).
SetDocOk(mbti) ==
    /\ saves[mbti] > 0
    /\ saves' = [saves EXCEPT ![mbti] = @ - 1]
    /\ profileDoc' = mbti
    /\ showMbtiModal' = FALSE
    /\ last' = Ev("SetDocOk")
    /\ UNCHANGED <<authVars, composerVars, response, isLoading, history, error,
                   studentMbti, readers, subDead, store, clock, callVars>>

\* setDoc rejects (lines 129-132).
SetDocFail(mbti) ==
    /\ saves[mbti] > 0
    /\ saves' = [saves EXCEPT ![mbti] = @ - 1]
    /\ error' = ErrMbtiSave
    /\ last' = Ev("SetDocFail")
    /\ UNCHANGED <<authVars, composerVars, response, isLoading, history,
                   studentMbti, showMbtiModal, readers, subDead, storeVars,
                   callVars>>

\* The "(변경)" button, rendered when userId and studentMbti are set
\* (lines 318-326).
OpenMbtiModal ==
    /\ Mounted
    /\ userId # NoUser /\ studentMbti # NoMbti
    /\ showMbtiModal' = TRUE
    /\ last' = Ev("OpenMbtiModal")
    /\ UNCHANGED <<authVars, composerVars, response, isLoading, history, error,
                   studentMbti, saves, readers, subDead, storeVars, callVars>>

(* ------------------- history feed (lines 101-120) --------------------- *)

\* The effect's guard (line 102); the listener lives until it errors or
\* the component unmounts (line 119).
Subscribed == Mounted /\ isAuthReady /\ db /\ userId # NoUser /\ ~subDead

\* Timestamp.toDate(): a Date holds whole milliseconds, the microseconds
\* are lost.
toDate(timestamp) == timestamp[1]

\* b.timestamp?.toDate() || 0 : the Date's number value, or 0 when the
\* server timestamp is not resolved yet.
SortKey(item) == IF item.timestamp = NoTs THEN 0 ELSE toDate(item.timestamp)

\* A faulty comparator, oldest first: C7 must tell it from Compare.
CompareAscending(a, b) == SortKey(a) - SortKey(b)

\* The comparator of line 112.
Compare(a, b) == SortKey(b) - SortKey(a)

\* Array.prototype.sort is stable: x goes before the first element that
\* the comparator orders after it.
RECURSIVE InsertSorted(_, _)
InsertSorted(x, sorted) ==
    IF sorted = <<>> THEN <<x>>
    ELSE IF Compare(Head(sorted), x) > 0
           THEN <<x>> \o sorted
           ELSE <<Head(sorted)>> \o InsertSorted(x, Tail(sorted))

RECURSIVE SortHistory(_)
SortHistory(data) ==
    IF data = <<>> THEN <<>>
    ELSE InsertSorted(data[Len(data)], SortHistory(SubSeq(data, 1, Len(data) - 1)))

\* The orders in which querySnapshot.forEach can visit a set of documents.
RECURSIVE Orders(_)
Orders(S) ==
    IF S = {} THEN {<<>>}
    ELSE UNION {{<<d>> \o o : o \in Orders(S \ {d})} : d \in S}

\* The listener's success callback (lines 107-113).
Snapshot(historyData) ==
    /\ Subscribed
    /\ history' = SortHistory(historyData)
    /\ last' = Ev("Snapshot")
    /\ UNCHANGED <<authVars, composerVars, response, isLoading, error,
                   studentMbti, showMbtiModal, saves, readers, subDead,
                   storeVars, callVars>>

\* The listener's error callback (lines 114-117).
SnapshotError ==
    /\ Subscribed
    /\ error' = ErrHistory
    /\ subDead' = TRUE
    /\ last' = Ev("SnapshotError")
    /\ UNCHANGED <<authVars, composerVars, response, isLoading, history,
                   studentMbti, showMbtiModal, saves, readers, storeVars,
                   callVars>>

(* ------------------- prompt composer (lines 136-146, 236-281) --------- *)

\* The textarea's onChange (line 240).
SetPrompt(text) ==
    /\ Mounted
    /\ text # prompt
    /\ prompt' = text
    /\ last' = Ev("SetPrompt")
    /\ UNCHANGED <<authVars, activeTab, imageFile, imageBase64, response,
                   isLoading, history, error, studentMbti, showMbtiModal, saves,
                   readers, subDead, storeVars, callVars>>

\* TabButton's onClick (line 280).
SetActiveTab(id) ==
    /\ Mounted
    /\ id # activeTab
    /\ activeTab' = id
    /\ last' = Ev("SetActiveTab")
    /\ UNCHANGED <<authVars, prompt, imageFile, imageBase64, response,
                   isLoading, history, error, studentMbti, showMbtiModal, saves,
                   readers, subDead, storeVars, callVars>>

\* The file input exists in the image tab only (lines 243-251); a chosen
\* file is stored and its read started (lines 137-145).
handleImageChange(file) ==
    /\ Mounted
    /\ activeTab = "image"
    /\ readers[file] < MaxPending
    /\ imageFile' = file
    /\ readers' = [readers EXCEPT ![file] = @ + 1]
    /\ last' = Ev("handleImageChange")
    /\ UNCHANGED <<authVars, activeTab, prompt, imageBase64, response,
                   isLoading, history, error, studentMbti, showMbtiModal, saves,
                   subDead, storeVars, callVars>>

\* reader.onloadend (lines 141-143).
ReaderLoadEnd(file) ==
    /\ readers[file] > 0
    /\ readers' = [readers EXCEPT ![file] = @ - 1]
    /\ imageBase64' = DataUrl(file)[2]
    /\ last' = Ev("ReaderLoadEnd")
    /\ UNCHANGED <<authVars, activeTab, prompt, imageFile, response, isLoading,
                   history, error, studentMbti, showMbtiModal, saves, subDead,
                   storeVars, callVars>>

\* A faulty click handler that swaps prompt and response: C6 must tell it
\* from Recall.
RecallSwapped(item) ==
    [response |-> item.prompt, prompt |-> item.response, activeTab |-> item.type]

\* What a click on a history entry stores (line 358).
Recall(item) ==
    [response |-> item.response, prompt |-> item.prompt, activeTab |-> item.type]

\* The history entry's onClick (line 358).
RecallHistory(i) ==
    /\ Mounted
    /\ i \in 1..Len(history)
    /\ response' = Recall(history[i]).response
    /\ prompt' = Recall(history[i]).prompt
    /\ activeTab' = Recall(history[i]).activeTab
    /\ last' = EvItem("RecallHistory", i)
    /\ UNCHANGED <<authVars, imageFile, imageBase64, isLoading, history, error,
                   studentMbti, showMbtiModal, saves, readers, subDead,
                   storeVars, callVars>>

(* ------------------- gateway call (lines 149-223) --------------------- *)

\* JavaScript truthiness of prompt, imageBase64 and studentMbti.
Truthy(x) == x \notin {"", "null"}

\* A faulty input test that rejects image-only submissions and lets empty
\* ones pass: C3 must tell it from InputMissing.
InputMissingInverted(text, image) == ~Truthy(text) /\ Truthy(image)

\* Line 150.
InputMissing(text, image) == ~Truthy(text) /\ ~Truthy(image)

\* A faulty mentor test that never blocks: C4 must tell it from
\* MentorBlocked.
MentorNeverBlocked(tab, mbti) == FALSE

\* Line 154.
MentorBlocked(tab, mbti) == tab = "mentor" /\ ~Truthy(mbti)

\* The template of lines 164-186: the mode's wrapper around the prompt.
FullPrompt(tab, text, mbti) ==
    IF tab = "mentor" THEN <<"mentor", mbti, mbti, text>> ELSE <<tab, text>>

\* Line 189: when the inline-data part is pushed.
AttachesImage(tab, image) == tab = "image" /\ Truthy(image)

\* payload.contents[0].parts (lines 188-191). imageFile.type is read from
\* the file held, and throws a TypeError when none is.
Payload(tab, text, mbti, file, image) ==
    <<[text |-> FullPrompt(tab, text, mbti)]>> \o
    (IF AttachesImage(tab, image)
       THEN <<[inlineData |-> [mimeType |-> FileType(file), data |-> image]]>>
       ELSE <<>>)

PayloadThrows(tab, file, image) == AttachesImage(tab, image) /\ file = NoFile

\* A submit button that is never disabled: C10 must tell it from
\* SubmitDisabled.
NeverDisabled == FALSE

\* The submit button's disabled attribute (line 268).
SubmitDisabled == isLoading

\* What the run of getAiResponse that starts now keeps in its closure.
Closure ==
    [activeTab |-> activeTab, prompt |-> prompt, studentMbti |-> studentMbti,
     imageBase64 |-> imageBase64, canStore |-> db /\ userId # NoUser,
     payload |-> Payload(activeTab, prompt, studentMbti, imageFile, imageBase64)]

\* Lines 149-197, up to the await of fetch.
getAiResponse ==
    /\ Mounted
    /\ ~SubmitDisabled
    /\ last' = Ev("getAiResponse")
    /\ IF InputMissing(prompt, imageBase64)
         THEN /\ error' = ErrEmptyInput
              /\ UNCHANGED <<showMbtiModal, isLoading, response, callVars>>
         ELSE IF MentorBlocked(activeTab, studentMbti)
         THEN /\ error' = ErrMbtiRequired
              /\ showMbtiModal' = TRUE
              /\ UNCHANGED <<isLoading, response, callVars>>
         ELSE /\ isLoading' = TRUE
              /\ response' = ""
              /\ error' = NoError
              /\ UNCHANGED showMbtiModal
              /\ IF PayloadThrows(activeTab, imageFile, imageBase64)
                   THEN UNCHANGED <<issued, calls>>
                   ELSE /\ issued < MaxCalls
                        /\ issued' = issued + 1
                        /\ calls' = calls \cup
                              {[id |-> issued + 1, stage |-> "fetch",
                                text |-> NoText, req |-> Closure]}
    /\ UNCHANGED <<authVars, composerVars, history, studentMbti, saves, readers,
                   subDead, storeVars>>

\* A faulty finally block that keeps the prompt: C5 must tell it from
\* Finally.
FinallyKeepsPrompt ==
    /\ isLoading' = FALSE
    /\ imageFile' = NoFile
    /\ imageBase64' = NoImage
    /\ UNCHANGED prompt

\* The finally block (lines 216-222).
Finally ==
    /\ isLoading' = FALSE
    /\ prompt' = ""
    /\ imageFile' = NoFile
    /\ imageBase64' = NoImage

\* A faulty status test that takes every answer for a success: C1 must
\* tell it from ResponseOk.
StatusAlwaysOk(outcome) == TRUE

\* fetch resolved with apiResponse.ok (line 198).
ResponseOk(outcome) == outcome \in {"ok", "bad_json"}

\* Whether fetch resolves (line 197) and apiResponse.json() does (line
\* 199); an error status comes with a JSON body without candidates.
FetchResolves(outcome) == outcome # "network"
JsonParses(outcome) == outcome # "bad_json"

\* Line 200.
ExtractText(text) == IF text \in {NoText, ""} THEN Placeholder ELSE text

\* A faulty document built from the state at the time of the answer: C2
\* must tell it from ExchangeDoc.
ExchangeDocFromState(id, req, text) ==
    [id |-> id, type |-> activeTab, prompt |-> prompt, response |-> text,
     mbti |-> studentMbti, timestamp |-> NoTs]

\* The document of lines 205-211, as the local cache holds it until the
\* server has set the timestamp.
ExchangeDoc(id, req, text) ==
    [id |-> id, type |-> req.activeTab, prompt |-> req.prompt,
     response |-> text, mbti |-> req.studentMbti, timestamp |-> NoTs]

\* fetch answers (lines 197-212, 213-222): on success the response is shown
\* and, with a store and an identity, addDoc is awaited; every other
\* outcome goes through catch and finally.
GatewayReply(c, outcome, text) ==
    /\ c \in calls /\ c.stage = "fetch"
    /\ text = NoText \/ outcome = "ok"
    /\ UNCHANGED <<authVars, activeTab, history, studentMbti, showMbtiModal,
                   saves, readers, subDead, clock, profileDoc, issued>>
    /\ last' = EvReply(c.id, outcome, text)
    /\ IF FetchResolves(outcome) /\ ResponseOk(outcome) /\ JsonParses(outcome)
         THEN /\ response' = ExtractText(text)
              /\ UNCHANGED error
              /\ IF c.req.canStore
                   THEN /\ store' = store \cup
                              {ExchangeDoc(c.id, c.req, ExtractText(text))}
                        /\ calls' = (calls \ {c}) \cup
                              {[c EXCEPT !.stage = "addDoc",
                                         !.text = ExtractText(text)]}
                        /\ UNCHANGED <<isLoading, composerVars>>
                   ELSE /\ Finally
                        /\ calls' = calls \ {c}
                        /\ UNCHANGED store
         ELSE /\ error' = ErrGateway
              /\ Finally
              /\ calls' = calls \ {c}
              /\ UNCHANGED <<response, store>>

\* addDoc resolves: the server has stored the document and set its
\* timestamp (lines 205-211), then finally. The server's next commit will
\* be at time next.
AddDocOk(c, next) ==
    /\ c \in calls /\ c.stage = "addDoc"
    /\ next \in NextTimes(clock)
    /\ store' = {IF d.id = c.id THEN [d EXCEPT !.timestamp = clock] ELSE d :
                 d \in store}
    /\ clock' = next
    /\ calls' = calls \ {c}
    /\ Finally
    /\ last' = EvItem("AddDocOk", c.id)
    /\ UNCHANGED <<authVars, activeTab, response, history, error, studentMbti,
                   showMbtiModal, saves, readers, subDead, profileDoc, issued>>

\* addDoc rejects: the local write is rolled back, then catch and finally.
AddDocFail(c) ==
    /\ c \in calls /\ c.stage = "addDoc"
    /\ store' = {d \in store : d.id # c.id}
    /\ error' = ErrGateway
    /\ calls' = calls \ {c}
    /\ Finally
    /\ last' = EvItem("AddDocFail", c.id)
    /\ UNCHANGED <<authVars, activeTab, response, history, studentMbti,
                   showMbtiModal, saves, readers, subDead, clock, profileDoc,
                   issued>>

(* ---------------------------- specifications -------------------------- *)

\* The session from construction: the bootstrap, the profile selection and
\* the history listener of a user without earlier exchanges.
Next ==
    \/ AuthStateRestored
    \/ AuthStateNull
    \/ SignInAccepted
    \/ SignInResolved
    \/ SignInFail
    \/ AuthStateUser
    \/ GetDocOk
    \/ GetDocFail
    \/ \E mbti \in MbtiTypes : handleMbtiSelect(mbti)
    \/ \E mbti \in MbtiTypes : SetDocOk(mbti)
    \/ \E mbti \in MbtiTypes : SetDocFail(mbti)
    \/ OpenMbtiModal
    \/ \E historyData \in Orders(store) : Snapshot(historyData)
    \/ SnapshotError

Spec == Init /\ [][Next]_vars

\* Every suspended run of getAiResponse is answered: by the gateway, then
\* by the store.
GatewayAnswers ==
    \E c \in calls, outcome \in FetchOutcomes, text \in ReplyTexts :
        GatewayReply(c, outcome, text)

StoreAnswers ==
    \E c \in calls : AddDocOk(c, NextMillisecond(clock)) \/ AddDocFail(c)

\* The composer and ComposeCalls gateway calls in a settled session, over
\* all five tabs and with one file to pick.
NextCompose ==
    \/ \E text \in Texts : SetPrompt(text)
    \/ \E id \in Modes : SetActiveTab(id)
    \/ \E file \in {"cat.png"} : handleImageChange(file)
    \/ \E file \in {"cat.png"} : ReaderLoadEnd(file)
    \/ getAiResponse /\ issued' <= ComposeCalls
    \/ \E c \in calls, outcome \in FetchOutcomes, text \in ReplyTexts :
           GatewayReply(c, outcome, text)
    \/ \E c \in calls : AddDocOk(c, NextMillisecond(clock))
    \/ \E c \in calls : AddDocFail(c)

SpecCompose == InitSettled /\ [][NextCompose]_vars

FairCompose ==
    SpecCompose /\ WF_vars(GatewayAnswers) /\ WF_vars(StoreAnswers)

\* Up to MaxCalls gateway calls in a settled session, with the profile
\* selection and the history feed at work while they are pending.
NextCall ==
    \/ \E text \in Texts : SetPrompt(text)
    \/ \E id \in {"mentor", "qa"} : SetActiveTab(id)
    \/ \E mbti \in {"INTJ"} : handleMbtiSelect(mbti)
    \/ \E mbti \in {"INTJ"} : SetDocOk(mbti)
    \/ getAiResponse
    \/ \E c \in calls, outcome \in FetchOutcomes, text \in ReplyTexts :
           GatewayReply(c, outcome, text)
    \/ \E c \in calls : AddDocOk(c, NextMillisecond(clock))
    \/ \E c \in calls : AddDocFail(c)
    \/ \E historyData \in Orders(store) : Snapshot(historyData)
    \/ \E i \in 1..Len(history) : RecallHistory(i)

SpecCall == InitSettled /\ [][NextCall]_vars

\* Up to MaxCalls gateway calls in a first-time user's session, with every
\* control the page offers while a call is pending: the tabs, the textarea,
\* the file input, the history entries and the selection modal.
NextBusy ==
    \/ \E text \in Texts : SetPrompt(text)
    \/ \E id \in {"qa", "image"} : SetActiveTab(id)
    \/ \E file \in {"cat.png"} : handleImageChange(file)
    \/ \E file \in {"cat.png"} : ReaderLoadEnd(file)
    \/ \E mbti \in {"INTJ"} : handleMbtiSelect(mbti)
    \/ \E mbti \in {"INTJ"} : SetDocOk(mbti)
    \/ getAiResponse
    \/ \E c \in calls, outcome \in {"ok", "http_error"}, text \in {NoText, "r"} :
           GatewayReply(c, outcome, text)
    \/ \E c \in calls : AddDocOk(c, NextMillisecond(clock))
    \/ \E c \in calls : AddDocFail(c)
    \/ \E historyData \in Orders(store) : Snapshot(historyData)
    \/ \E i \in 1..Len(history) : RecallHistory(i)

SpecBusy == InitFirstRun /\ [][NextBusy]_vars

\* The file input with both files to pick, reads that end in any order,
\* and ComposeCalls gateway calls, in a settled session.
NextImage ==
    \/ \E text \in Texts : SetPrompt(text)
    \/ \E id \in {"qa", "image"} : SetActiveTab(id)
    \/ \E file \in Files : handleImageChange(file)
    \/ \E file \in Files : ReaderLoadEnd(file)
    \/ getAiResponse /\ issued' <= ComposeCalls
    \/ \E c \in calls, outcome \in FetchOutcomes, text \in ReplyTexts :
           GatewayReply(c, outcome, text)
    \/ \E c \in calls : AddDocOk(c, NextMillisecond(clock))
    \/ \E c \in calls : AddDocFail(c)

SpecImage == InitSettled /\ [][NextImage]_vars

\* ComposeCalls gateway calls in a returning user's session, with the
\* history feed at work, one file to pick and commits that can share a
\* millisecond.
NextFeed ==
    \/ \E text \in Texts : SetPrompt(text)
    \/ \E id \in {"image"} : SetActiveTab(id)
    \/ \E file \in {"cat.png"} : handleImageChange(file)
    \/ \E file \in {"cat.png"} : ReaderLoadEnd(file)
    \/ getAiResponse /\ issued' <= ComposeCalls
    \/ \E c \in calls, outcome \in FetchOutcomes, text \in ReplyTexts :
           GatewayReply(c, outcome, text)
    \/ \E c \in calls, next \in NextTimes(clock) : AddDocOk(c, next)
    \/ \E c \in calls : AddDocFail(c)
    \/ \E historyData \in Orders(store) : Snapshot(historyData)
    \/ SnapshotError
    \/ \E i \in 1..Len(history) : RecallHistory(i)

SpecFeed == InitFeed /\ [][NextFeed]_vars

(* ------------------------------- claims ------------------------------- *)

Ids(docs) == {d.id : d \in docs}

\* The gateway reply just handled was a failure: a non-2xx status, a
\* rejected fetch or a body that is no JSON.
ReplyFailed(ev) == ev.op = "GatewayReply" /\ ev.arg # "ok"
ReplySucceeded(ev) == ev.op = "GatewayReply" /\ ev.arg = "ok"

\* C1: a document enters the studyHistory store only in the step that
\* handles a successful gateway reply; the step that handles a failed reply
\* adds no document and leaves a non-empty error message.
C1_ExchangeOnlyAfterSuccess ==
    [][ /\ (Ids(store') \ Ids(store) # {} => ReplySucceeded(last'))
        /\ (ReplyFailed(last') => store' = store /\ error' # NoError) ]_vars

\* C1 witness: an identified user's call was answered with an error status;
\* the store is still empty and the gateway error is shown.
C1_Witness ==
    /\ ReplyFailed(last) /\ last.arg = "http_error"
    /\ db /\ userId # NoUser
    /\ store = {} /\ error = ErrGateway

\* The document that the run c of getAiResponse submitted for, as the
\* submission saw the tab, the prompt and the category.
Submitted(c, d) ==
    /\ d.id = c.id
    /\ d.type = c.req.activeTab
    /\ d.prompt = c.req.prompt
    /\ d.mbti = c.req.studentMbti

\* C2 as claimed: every successful gateway reply adds exactly one document,
\* which carries the submission's mode, prompt and category and the
\* extracted response text.
C2_OneExchangePerSuccess ==
    [][ ReplySucceeded(last') =>
          \E c \in calls, d \in store' :
            /\ c.id = last'.id
            /\ store' = store \cup {d} /\ d \notin store
            /\ Submitted(c, d)
            /\ d.response = ExtractText(last'.text) ]_vars

\* C2 as amended: a successful reply to a call submitted with db and userId
\* set adds exactly one document, with the submission's mode, prompt and
\* category and the extracted response text, whatever the composer holds
\* by then; a call submitted without them adds none. The server's answer to
\* addDoc sets the timestamp of that document or takes the document back,
\* and no other step changes the store.
C2_OneExchangePerStoredSuccess ==
    [][ /\ ReplySucceeded(last') =>
             \E c \in calls :
               /\ c.id = last'.id
               /\ IF c.req.canStore
                    THEN \E d \in store' :
                           /\ store' = store \cup {d} /\ d.id \notin Ids(store)
                           /\ Submitted(c, d)
                           /\ d.response = ExtractText(last'.text)
                    ELSE store' = store
        /\ last'.op = "AddDocOk" =>
             /\ Ids(store') = Ids(store)
             /\ \A d \in store : \E e \in store' :
                  /\ e.id = d.id
                  /\ [e EXCEPT !.timestamp = d.timestamp] = d
                  /\ (d.id # last'.id => e = d)
        /\ last'.op = "AddDocFail" =>
             store' = {d \in store : d.id # last'.id}
        /\ last'.op \notin {"GatewayReply", "AddDocOk", "AddDocFail"} =>
             store' = store ]_vars

\* C2 witness: the pending document of a call whose user has meanwhile
\* switched the tab, edited the text and chosen a category.
C2_Witness ==
    /\ ReplySucceeded(last)
    /\ \E c \in calls, d \in store :
         /\ c.stage = "addDoc" /\ Submitted(c, d)
         /\ c.req.activeTab # activeTab
         /\ c.req.prompt # prompt
         /\ c.req.studentMbti # studentMbti

\* C3: getAiResponse run with an empty prompt and no encoded image, in any
\* tab, only sets the empty-input message: no call is issued and the
\* prompt, the image, the tab and the loading flag stay as they were.
C3_EmptyInputRejected ==
    [][ (last'.op = "getAiResponse" /\ prompt = "" /\ imageBase64 = NoImage)
          => /\ activeTab \in Modes
             /\ error' = ErrEmptyInput
             /\ UNCHANGED <<prompt, imageFile, imageBase64, activeTab,
                            isLoading, calls, issued>> ]_vars

\* C3 witness: the rejection in the image tab, with a file chosen whose
\* read has not ended.
C3_Witness ==
    /\ last.op = "getAiResponse" /\ error = ErrEmptyInput
    /\ activeTab = "image" /\ prompt = "" /\ imageBase64 = NoImage
    /\ imageFile # NoFile /\ ~isLoading

\* getAiResponse has just run in the mentor tab without a category.
MentorWithoutMbti ==
    last.op = "getAiResponse" /\ activeTab = "mentor" /\ studentMbti = NoMbti

\* C4 as claimed: in the mentor tab without a category, for any prompt and
\* image, getAiResponse issues no call and leaves the selection modal open.
C4_MentorOpensModal ==
    MentorWithoutMbti => ~isLoading /\ calls = {} /\ showMbtiModal

\* C4 as amended: in the mentor tab without a category getAiResponse issues
\* no call; with a prompt or an encoded image it sets the category message
\* and opens the modal, with neither it sets the empty-input message.
C4_MentorBlocked ==
    MentorWithoutMbti =>
      /\ ~isLoading /\ calls = {}
      /\ IF prompt # "" \/ imageBase64 # NoImage
           THEN showMbtiModal /\ error = ErrMbtiRequired
           ELSE error = ErrEmptyInput

\* C4 witness: the modal opened for a submission that holds an image only.
C4_Witness ==
    /\ MentorWithoutMbti /\ prompt = "" /\ imageBase64 # NoImage
    /\ showMbtiModal /\ error = ErrMbtiRequired /\ ~db

\* A run of getAiResponse has just ended: the step ran its finally block.
CallEnded ==
    /\ last.op \in {"GatewayReply", "AddDocOk", "AddDocFail"}
    /\ \A c \in calls : c.id # last.id

\* C5: every suspended run of getAiResponse ends, and in the state its end
\* leaves the loading flag is off, the prompt is empty and no file and no
\* encoded image are held.
C5_CallEndsAndClears ==
    /\ [](CallEnded => /\ ~isLoading /\ prompt = ""
                       /\ imageFile = NoFile /\ imageBase64 = NoImage)
    /\ \A id \in 1..MaxCalls :
         (\E c \in calls : c.id = id) ~> (\A c \in calls : c.id # id)

\* C5 witness: a call that failed at the store has ended while the file
\* chosen during the call is still being read.
C5_Witness ==
    /\ CallEnded /\ last.op = "AddDocFail"
    /\ readers["cat.png"] > 0
    /\ ~isLoading /\ prompt = "" /\ imageFile = NoFile

\* C6: a click on history entry i shows that entry's mode, prompt and
\* response, and changes neither the calls in flight, the store, the
\* history list, the image, the category nor the loading flag.
C6_RecallRestoresEntry ==
    [][ last'.op = "RecallHistory" =>
          /\ last'.id \in 1..Len(history)
          /\ activeTab' = history[last'.id].type
          /\ prompt' = history[last'.id].prompt
          /\ response' = history[last'.id].response
          /\ UNCHANGED <<calls, issued, store, history, imageFile,
                         imageBase64, studentMbti, isLoading>> ]_vars

\* C6 witness: the entry of an image question recalled while a call is
\* pending and an image is attached.
C6_Witness ==
    /\ last.op = "RecallHistory"
    /\ history[last.id].type = "image" /\ activeTab = "image"
    /\ prompt = "" /\ response = Placeholder
    /\ isLoading /\ calls # {} /\ imageBase64 # NoImage

\* Timestamp a is later than timestamp b.
Later(a, b) == a[1] > b[1] \/ (a[1] = b[1] /\ a[2] > b[2])

\* After a snapshot the history list holds exactly the documents of the
\* collection, each once, and those without a timestamp come last.
SnapshotReplaces ==
    /\ Len(history) = Cardinality(store)
    /\ {history[i] : i \in 1..Len(history)} = store
    /\ \A i, j \in 1..Len(history) :
         (i < j /\ history[i].timestamp = NoTs) => history[j].timestamp = NoTs

\* C7 as claimed: after a snapshot the history list holds exactly the
\* documents of the collection, the timestamped ones first in strictly
\* descending order of timestamp and the ones without a timestamp last.
C7_SnapshotSorted ==
    last.op = "Snapshot" =>
      /\ SnapshotReplaces
      /\ \A i, j \in 1..Len(history) :
           (i < j /\ history[i].timestamp # NoTs /\ history[j].timestamp # NoTs)
             => Later(history[i].timestamp, history[j].timestamp)

\* C7 as amended: after a snapshot the history list holds exactly the
\* documents of the collection, the timestamped ones first and the ones
\* without a timestamp last; a document whose timestamp lies in a later
\* millisecond comes before one of an earlier millisecond, and documents
\* of one millisecond come in either order.
C7_SnapshotSortedByMillisecond ==
    last.op = "Snapshot" =>
      /\ SnapshotReplaces
      /\ \A i, j \in 1..Len(history) :
           (i < j /\ history[i].timestamp # NoTs /\ history[j].timestamp # NoTs)
             => history[i].timestamp[1] >= history[j].timestamp[1]

\* C7 witness: three documents after a snapshot: two of one millisecond, the
\* earlier of them first, and the one still waiting for its timestamp last.
C7_Witness ==
    /\ last.op = "Snapshot" /\ Len(history) = 3
    /\ history[1].timestamp # NoTs /\ history[2].timestamp # NoTs
    /\ Later(history[2].timestamp, history[1].timestamp)
    /\ history[3].timestamp = NoTs

\* The parts of a request body include an inline-data part.
HasInlineData(parts) ==
    \E k \in 1..Len(parts) : "inlineData" \in DOMAIN parts[k]

\* C8 as claimed: a request carries an inline-data part exactly when an
\* encoded image was held at submission, in every tab.
C8_ImageSentWheneverHeld ==
    \A c \in calls :
      HasInlineData(c.req.payload) <=> Truthy(c.req.imageBase64)

\* C9 as claimed: after a rejected getDoc, a rejected setDoc or a listener
\* error, a message is shown and no rejection has left its handler.
C9_StoreFailureSurfaced ==
    last.op \in {"GetDocFail", "SetDocFail", "SnapshotError"} =>
      error # NoError /\ authUser # "escaped"

\* C10: at most one run of getAiResponse is suspended at a time, and while
\* one is the loading flag, which disables the submit button, is on.
C10_OneCallInFlight ==
    /\ Cardinality(calls) <= 1
    /\ calls # {} => isLoading

\* C10 witness: the second call of a session is pending, with a file chosen
\* and read since its submission, while the user recalls the entry of the
\* first.
C10_Witness ==
    /\ last.op = "RecallHistory"
    /\ \E c \in calls :
         c.id = 2 /\ c.req.imageBase64 = NoImage /\ c.req.activeTab # activeTab
    /\ imageBase64 # NoImage
    /\ isLoading

\* C11 as claimed: whenever an encoded image is held, a file is held too and
\* the encoded data is that of the held file, so that imageFile.type is
\* defined wherever the request or the preview reads it.
C11_ImageMatchesFile ==
    imageBase64 # NoImage =>
      /\ imageFile # NoFile
      /\ imageBase64 = DataUrl(imageFile)[2]
      /\ ~PreviewThrows

====
